---- MODULE Spec2Model ----
(***************************************************************************)
(* Attendance tracker (tracker.py): the menu loop, the recording flow, the  *)
(* text archive and the structured log, the two readers and the report      *)
(* builder.  Files are modelled by their text (TLA+ strings, one character  *)
(* per position), so that formatting and parsing are computed, not assumed. *)
(***************************************************************************)
EXTENDS Integers, Sequences, FiniteSets, TLC

(***************************************************************************)
(* Python str primitives used by tracker.py                                 *)
(***************************************************************************)
At(s, i) == SubSeq(s, i, i)

Lowers == "abcdefghijklmnopqrstuvwxyz"
Uppers == "ABCDEFGHIJKLMNOPQRSTUVWXYZ"
Digits == "0123456789"

LowerSet == {At(Lowers, i) : i \in 1..Len(Lowers)}
UpperSet == {At(Uppers, i) : i \in 1..Len(Uppers)}
DigitSet == {At(Digits, i) : i \in 1..Len(Digits)}
SpaceSet == {" ", "\t", "\n", "\r"}

ToLower == [c \in UpperSet |-> At(Lowers, CHOOSE i \in 1..Len(Uppers) : At(Uppers, i) = c)]
ToUpper == [c \in LowerSet |-> At(Uppers, CHOOSE i \in 1..Len(Lowers) : At(Lowers, i) = c)]
DigitVal == [c \in DigitSet |-> (CHOOSE i \in 1..Len(Digits) : At(Digits, i) = c) - 1]

lower_char(c) == IF c \in UpperSet THEN ToLower[c] ELSE c
upper_char(c) == IF c \in LowerSet THEN ToUpper[c] ELSE c
is_cased(c) == c \in LowerSet \/ c \in UpperSet

RECURSIVE concat(_, _, _)
\* the concatenation of pieces[lo..hi], by halves
concat(pieces, lo, hi) ==
    IF lo > hi THEN ""
    ELSE IF lo = hi THEN pieces[lo]
    ELSE LET mid == (lo + hi) \div 2
         IN  concat(pieces, lo, mid) \o concat(pieces, mid + 1, hi)

\* str.lower()
lower(s) == concat([i \in 1..Len(s) |-> lower_char(At(s, i))], 1, Len(s))

\* str.title(): a cased letter after an uncased character is upper-cased, any other is lower-cased
title(s) ==
    concat([i \in 1..Len(s) |->
                IF i > 1 /\ is_cased(At(s, i - 1)) THEN lower_char(At(s, i)) ELSE upper_char(At(s, i))],
           1, Len(s))

\* index of the first non-whitespace character, Len(s) + 1 when there is none
lstrip_at(s) ==
    CHOOSE i \in 1..(Len(s) + 1) :
        /\ i = Len(s) + 1 \/ At(s, i) \notin SpaceSet
        /\ \A k \in 1..(i - 1) : At(s, k) \in SpaceSet

\* index of the last non-whitespace character, 0 when there is none
rstrip_at(s) ==
    CHOOSE j \in 0..Len(s) :
        /\ j = 0 \/ At(s, j) \notin SpaceSet
        /\ \A k \in (j + 1)..Len(s) : At(s, k) \in SpaceSet

\* str.strip()
strip(s) == SubSeq(s, lstrip_at(s), rstrip_at(s))

\* c * n
repeat(c, n) == concat([i \in 1..n |-> c], 1, n)

\* str.ljust(width)
ljust(s, width) == s \o repeat(" ", width - Len(s))

\* s[i:].startswith(p), positions from 1
starts_at(s, i, p) == i + Len(p) - 1 <= Len(s) /\ SubSeq(s, i, i + Len(p) - 1) = p

\* str.startswith(p)
startswith(s, p) == starts_at(s, 1, p)

\* first position >= i where p occurs in s, or 0
find_from(s, i, p) ==
    IF \E k \in i..Len(s) : starts_at(s, k, p)
    THEN CHOOSE k \in i..Len(s) : starts_at(s, k, p) /\ \A o \in i..(k - 1) : ~starts_at(s, o, p)
    ELSE 0

RECURSIVE str_nat(_)
str_nat(n) == IF n < 10 THEN At(Digits, n + 1) ELSE str_nat(n \div 10) \o At(Digits, (n % 10) + 1)

\* str(n) of an int, as the f-strings of write_archive_section produce it
str(n) == IF n < 0 THEN "-" \o str_nat(-n) ELSE str_nat(n)

all_digits(s) == \A i \in 1..Len(s) : At(s, i) \in DigitSet

RECURSIVE nat_val(_, _, _)
nat_val(s, i, acc) == IF i > Len(s) THEN acc ELSE nat_val(s, i + 1, acc * 10 + DigitVal[At(s, i)])

\* zero-padded decimal of width w (strftime %I %M, date.isoformat)
zpad(n, w) == repeat("0", w - Len(str_nat(n))) \o str_nat(n)

\* int(text): <<n>> for optional surrounding whitespace, optional sign, decimal digits; <<>> is ValueError
int(text) ==
    LET t == strip(text)
        signed == Len(t) >= 1 /\ At(t, 1) \in {"+", "-"}
        d == IF signed THEN SubSeq(t, 2, Len(t)) ELSE t
    IN  IF Len(d) = 0 \/ ~all_digits(d) THEN <<>>
        ELSE IF signed /\ At(t, 1) = "-" THEN << -nat_val(d, 1, 0) >>
        ELSE << nat_val(d, 1, 0) >>

(***************************************************************************)
(* datetime.strptime / strftime for the formats tracker.py uses              *)
(***************************************************************************)
\* strptime directive %I: 1[0-2]|0[1-9]|[1-9]
re_I(t) ==
    \/ Len(t) = 2 /\ At(t, 1) = "1" /\ At(t, 2) \in {"0", "1", "2"}
    \/ Len(t) = 2 /\ At(t, 1) = "0" /\ At(t, 2) \in DigitSet \ {"0"}
    \/ Len(t) = 1 /\ t \in DigitSet \ {"0"}

\* strptime directive %H: 2[0-3]|[0-1]\d|\d
re_H(t) ==
    \/ Len(t) = 2 /\ At(t, 1) = "2" /\ At(t, 2) \in {"0", "1", "2", "3"}
    \/ Len(t) = 2 /\ At(t, 1) \in {"0", "1"} /\ At(t, 2) \in DigitSet
    \/ Len(t) = 1 /\ t \in DigitSet

\* strptime directive %M: [0-5]\d|\d
re_M(t) ==
    \/ Len(t) = 2 /\ At(t, 1) \in {"0", "1", "2", "3", "4", "5"} /\ At(t, 2) \in DigitSet
    \/ Len(t) = 1 /\ t \in DigitSet

\* strptime directive %p, matched ignoring case
re_p(t) == lower(t) \in {"am", "pm"}

\* the three formats of fmt_candidates, in order
fmt_candidates == <<"%I:%M %p", "%H:%M", "%I:%M%p">>

\* the ways timestr splits as <hour>:<minute><rest> with the rest matching the format's tail
time_splits(timestr, fmt) ==
    {hm \in {1, 2} \X {1, 2} :
        LET hl == hm[1]
            ml == hm[2]
            hh == SubSeq(timestr, 1, hl)
            mm == SubSeq(timestr, hl + 2, hl + 1 + ml)
            rest == SubSeq(timestr, hl + ml + 2, Len(timestr))
        IN  /\ Len(timestr) >= hl + 1 + ml
            /\ At(timestr, hl + 1) = ":"
            /\ re_M(mm)
            /\ IF fmt = "%H:%M" THEN re_H(hh) /\ rest = ""
               ELSE /\ re_I(hh)
                    /\ Len(rest) >= 2
                    /\ re_p(SubSeq(rest, Len(rest) - 1, Len(rest)))
                    /\ LET ws == SubSeq(rest, 1, Len(rest) - 2)
                       IN  /\ strip(ws) = ""
                           /\ IF fmt = "%I:%M %p" THEN Len(ws) >= 1 ELSE Len(ws) = 0}

\* datetime.strptime(timestr, fmt) for a time format: <<hour 0..23, minute>>, or <<>> for ValueError
strptime_time(timestr, fmt) ==
    LET ok == time_splits(timestr, fmt)
    IN  IF ok = {} THEN <<>>
        ELSE LET hm == CHOOSE x \in ok : TRUE
                 h == nat_val(SubSeq(timestr, 1, hm[1]), 1, 0)
                 m == nat_val(SubSeq(timestr, hm[1] + 2, hm[1] + 1 + hm[2]), 1, 0)
                 pm == lower(SubSeq(timestr, Len(timestr) - 1, Len(timestr))) = "pm"
             IN  IF fmt = "%H:%M" THEN <<h, m>>
                 ELSE IF pm THEN << (IF h = 12 THEN 12 ELSE h + 12), m >>
                 ELSE << (IF h = 12 THEN 0 ELSE h), m >>

\* dt.strftime("%I:%M %p")
strftime_time(hm) ==
    zpad((IF hm[1] % 12 = 0 THEN 12 ELSE hm[1] % 12), 2) \o ":" \o zpad(hm[2], 2)
        \o " " \o (IF hm[1] < 12 THEN "AM" ELSE "PM")

\* parse_time without the strptime check: whatever was typed is kept
parse_time_unchecked(timestr) == strip(timestr)

RECURSIVE parse_time_from(_, _)
parse_time_from(timestr, k) ==
    IF k > Len(fmt_candidates) THEN ""
    ELSE LET dt == strptime_time(timestr, fmt_candidates[k])
         IN  IF dt # <<>> THEN strftime_time(dt) ELSE parse_time_from(timestr, k + 1)

\* parse_time(timestr): the normalized time, or "" when it raises ValueError
parse_time(timestr) == parse_time_from(strip(timestr), 1)

is_leap(y) == (y % 4 = 0 /\ y % 100 # 0) \/ y % 400 = 0

days_in_month(y, m) ==
    IF m = 2 THEN (IF is_leap(y) THEN 29 ELSE 28)
    ELSE IF m \in {4, 6, 9, 11} THEN 30 ELSE 31

\* strptime directive %m: 1[0-2]|0[1-9]|[1-9]
re_m(t) == re_I(t)

\* strptime directive %d: 3[01]|[12]\d|0[1-9]|[1-9]| [1-9]
re_d(t) ==
    \/ Len(t) = 2 /\ At(t, 1) = "3" /\ At(t, 2) \in {"0", "1"}
    \/ Len(t) = 2 /\ At(t, 1) \in {"1", "2"} /\ At(t, 2) \in DigitSet
    \/ Len(t) = 2 /\ At(t, 1) \in {"0", " "} /\ At(t, 2) \in DigitSet \ {"0"}
    \/ Len(t) = 1 /\ t \in DigitSet \ {"0"}

\* the ways date_inp splits as <4 digits>-<month>-<day>
date_splits(date_inp) ==
    {md \in {1, 2} \X {1, 2} :
        /\ Len(date_inp) = 4 + 1 + md[1] + 1 + md[2]
        /\ all_digits(SubSeq(date_inp, 1, 4))
        /\ At(date_inp, 5) = "-"
        /\ re_m(SubSeq(date_inp, 6, 5 + md[1]))
        /\ At(date_inp, 6 + md[1]) = "-"
        /\ re_d(SubSeq(date_inp, 7 + md[1], 6 + md[1] + md[2]))}

\* datetime.strptime(date_inp, "%Y-%m-%d").date(): <<year, month, day>>, or <<>> for ValueError
strptime_date(date_inp) ==
    LET ok == date_splits(date_inp)
    IN  IF ok = {} THEN <<>>
        ELSE LET md == CHOOSE x \in ok : TRUE
                 y == nat_val(SubSeq(date_inp, 1, 4), 1, 0)
                 m == nat_val(SubSeq(date_inp, 6, 5 + md[1]), 1, 0)
                 d == nat_val(strip(SubSeq(date_inp, 7 + md[1], 6 + md[1] + md[2])), 1, 0)
             IN  IF y >= 1 /\ d <= days_in_month(y, m) THEN <<y, m, d>> ELSE <<>>

\* date.isoformat()
isoformat(dt) == zpad(dt[1], 4) \o "-" \o zpad(dt[2], 2) \o "-" \o zpad(dt[3], 2)


(***************************************************************************)
(* String ordering (sorted(..., key=lambda s: s.lower()), sorted(keys))     *)
(***************************************************************************)
\* the printable ASCII characters in code point order, 32 to 95 and 97 to 126
AsciiLow == " !\"#$%&'()*+,-./0123456789:;<=>?@ABCDEFGHIJKLMNOPQRSTUVWXYZ[\\]^_"
AsciiHigh == "abcdefghijklmnopqrstuvwxyz{|}~"

AsciiSet == {At(AsciiLow, i) : i \in 1..Len(AsciiLow)} \cup {At(AsciiHigh, i) : i \in 1..Len(AsciiHigh)}

OrdMap ==
    [c \in AsciiSet |->
        IF \E i \in 1..Len(AsciiLow) : At(AsciiLow, i) = c
        THEN 31 + (CHOOSE i \in 1..Len(AsciiLow) : At(AsciiLow, i) = c)
        ELSE 96 + (CHOOSE i \in 1..Len(AsciiHigh) : At(AsciiHigh, i) = c)]

\* ord(c)
ord(c) == IF c = "\t" THEN 9 ELSE IF c = "\n" THEN 10 ELSE IF c = "\r" THEN 13 ELSE OrdMap[c]

\* a < b on str: by the first position where they differ
str_less(a, b) ==
    LET n == IF Len(a) < Len(b) THEN Len(a) ELSE Len(b)
    IN  IF \E i \in 1..n : At(a, i) # At(b, i)
        THEN LET d == CHOOSE i \in 1..n : At(a, i) # At(b, i) /\ \A k \in 1..(i - 1) : At(a, k) = At(b, k)
             IN  ord(At(a, d)) < ord(At(b, d))
        ELSE Len(a) < Len(b)

RECURSIVE sorted_by_lower(_)
\* sorted(names, key=lambda s: s.lower()) of a collection without repetition
sorted_by_lower(names) ==
    IF names = {} THEN <<>>
    ELSE LET first == CHOOSE n \in names : \A o \in names : ~str_less(lower(o), lower(n))
         IN  <<first>> \o sorted_by_lower(names \ {first})

RECURSIVE sorted_keys(_)
\* sorted(keys) of a collection of str
sorted_keys(keys) ==
    IF keys = {} THEN <<>>
    ELSE LET first == CHOOSE n \in keys : \A o \in keys : ~str_less(o, n)
         IN  <<first>> \o sorted_keys(keys \ {first})

\* sep.join(lines)
join(sep, lines) ==
    concat([k \in 1..(2 * Len(lines) - 1) |-> IF k % 2 = 1 THEN lines[(k + 1) \div 2] ELSE sep],
           1, 2 * Len(lines) - 1)

\* the k-th smallest element of a set of positions
nth(S, k) == CHOOSE x \in S : Cardinality({y \in S : y <= x}) = k

\* the position after the line terminator (\r\n, \n or \r) that starts at i
after_eol(s, i) == IF At(s, i) = "\r" /\ i < Len(s) /\ At(s, i + 1) = "\n" THEN i + 2 ELSE i + 1

\* the positions where a line terminator of s starts
eol_starts(s) ==
    {i \in 1..Len(s) : At(s, i) = "\r" \/ (At(s, i) = "\n" /\ ~(i > 1 /\ At(s, i - 1) = "\r"))}

\* str.splitlines()
splitlines(s) ==
    LET T == eol_starts(s)
        n == Cardinality(T)
        start(k) == IF k = 1 THEN 1 ELSE after_eol(s, nth(T, k - 1))
        tail == IF n = 0 THEN 1 ELSE after_eol(s, nth(T, n))
    IN  [k \in 1..n |-> SubSeq(s, start(k), nth(T, k) - 1)]
            \o (IF tail <= Len(s) THEN <<SubSeq(s, tail, Len(s))>> ELSE <<>>)

(***************************************************************************)
(* Files: a path either does not exist or holds text                        *)
(***************************************************************************)
NoFile == [exists |-> FALSE, text |-> ""]

\* open(path, "a").write(data)
append_text(file, data) == [exists |-> TRUE, text |-> file.text \o data]

\* open(path, "w").write(data), Path.write_text(data)
write_text(file, data) == [exists |-> TRUE, text |-> data]

colw == 28


(***************************************************************************)
(* Archive / CSV helpers                                                    *)
(***************************************************************************)
\* section_lines with the class strength printed as the present count
section_lines_miscounted(for_date, stamp, attendance, total_strength, absent) ==
    LET names == sorted_by_lower(DOMAIN attendance)
    IN  << "=== Attendance for: " \o isoformat(for_date) \o " ===",
           "Generated at: " \o stamp,
           "",
           ljust("Student Name", colw) \o "Check-in Time",
           repeat("-", colw + 16) >>
        \o [k \in 1..Len(names) |-> ljust(names[k], colw) \o attendance[names[k]]]
        \o << repeat("-", colw + 16),
              "Total Students Present: " \o str(total_strength),
              "Total Students (Class Strength): " \o str(total_strength),
              "Total Absent: " \o str(absent),
              "" >>

\* the lines of one archive section, in order
section_lines(for_date, stamp, attendance, total_strength, absent) ==
    LET names == sorted_by_lower(DOMAIN attendance)
    IN  << "=== Attendance for: " \o isoformat(for_date) \o " ===",
           "Generated at: " \o stamp,
           "",
           ljust("Student Name", colw) \o "Check-in Time",
           repeat("-", colw + 16) >>
        \o [k \in 1..Len(names) |-> ljust(names[k], colw) \o attendance[names[k]]]
        \o << repeat("-", colw + 16),
              "Total Students Present: " \o str(Cardinality(DOMAIN attendance)),
              "Total Students (Class Strength): " \o str(total_strength),
              "Total Absent: " \o str(absent),
              "" >>

\* write_archive_section with the file opened in mode "w"
write_archive_section_truncating(file, for_date, stamp, attendance, total_strength, absent) ==
    write_text(file, join("\n", section_lines(for_date, stamp, attendance, total_strength, absent)) \o "\n")

\* write_archive_section: the archive file after the section is appended
write_archive_section(file, for_date, stamp, attendance, total_strength, absent) ==
    append_text(file, join("\n", section_lines(for_date, stamp, attendance, total_strength, absent)) \o "\n")

\* the field with every quote character doubled
csv_escape(field) ==
    concat([i \in 1..Len(field) |-> IF At(field, i) = "\"" THEN "\"\"" ELSE At(field, i)], 1, Len(field))

\* csv.writer field under QUOTE_MINIMAL: quoted when it holds the delimiter, the quote or a line break
csv_field(field) ==
    IF \E i \in 1..Len(field) : At(field, i) \in {",", "\"", "\r", "\n"}
    THEN "\"" \o csv_escape(field) \o "\""
    ELSE field

\* csv.writer.writerow(fields)
writerow(fields) == join(",", [k \in 1..Len(fields) |-> csv_field(fields[k])]) \o "\r\n"

csv_header == <<"generated_at", "date", "student_name", "check_in_time">>

\* append_csv_rows with the header row written by every call
append_csv_rows_header_always(file, for_date, stamp, attendance) ==
    LET names == sorted_by_lower(DOMAIN attendance)
        rows == [k \in 1..Len(names) |->
                    writerow(<<stamp, isoformat(for_date), names[k], attendance[names[k]]>>)]
    IN  append_text(file, writerow(csv_header) \o join("", rows))

\* append_csv_rows without the header row of a new file
append_csv_rows_no_header(file, for_date, stamp, attendance) ==
    LET names == sorted_by_lower(DOMAIN attendance)
        rows == [k \in 1..Len(names) |->
                    writerow(<<stamp, isoformat(for_date), names[k], attendance[names[k]]>>)]
    IN  append_text(file, join("", rows))

\* append_csv_rows: the structured log after the rows are appended
append_csv_rows(file, for_date, stamp, attendance) ==
    LET names == sorted_by_lower(DOMAIN attendance)
        rows == [k \in 1..Len(names) |->
                    writerow(<<stamp, isoformat(for_date), names[k], attendance[names[k]]>>)]
    IN  append_text(file, (IF ~file.exists THEN writerow(csv_header) ELSE "") \o join("", rows))

\* first position >= i holding a delimiter or a line break, Len(s) + 1 when there is none
unquoted_end(s, i) ==
    CHOOSE k \in i..(Len(s) + 1) :
        /\ k = Len(s) + 1 \/ At(s, k) \in {",", "\n", "\r"}
        /\ \A o \in i..(k - 1) : At(s, o) \notin {",", "\n", "\r"}

\* last position of the run of quote characters that starts at r
quote_run_end(s, r) ==
    CHOOSE k \in r..Len(s) :
        /\ k = Len(s) \/ At(s, k + 1) # "\""
        /\ \A o \in r..k : At(s, o) = "\""

\* the positions after the opening quote at i where a run of quote characters starts
quote_runs(s, i) == {r \in (i + 1)..Len(s) : At(s, r) = "\"" /\ (r = i + 1 \/ At(s, r - 1) # "\"")}

\* the closing quote of the quoted field opened at i: the end of the first run of odd length, or 0
closing_quote(s, i) ==
    LET odd == {r \in quote_runs(s, i) : (quote_run_end(s, r) - r + 1) % 2 = 1}
    IN  IF odd = {} THEN 0 ELSE quote_run_end(s, CHOOSE r \in odd : \A o \in odd : r <= o)

\* the text of a quoted field between positions lo and hi, each doubled quote read as one
unquote(s, i, lo, hi) ==
    concat([k \in 1..(hi - lo + 1) |->
                LET q == lo + k - 1
                    starts == {r \in quote_runs(s, i) : r <= q}
                    r == CHOOSE x \in starts : \A o \in starts : o <= x
                IN  IF At(s, q) # "\"" THEN At(s, q)
                    ELSE IF (q - r) % 2 = 1 THEN "\"" ELSE ""],
           1, hi - lo + 1)

\* the field with the given value that ends before position e: where the next one starts, and
\* whether the record ends with it
field_ended(s, value, e) ==
    IF e > Len(s) THEN [value |-> value, next |-> e, last |-> TRUE]
    ELSE IF At(s, e) = "," THEN [value |-> value, next |-> e + 1, last |-> FALSE]
    ELSE [value |-> value, next |-> after_eol(s, e), last |-> TRUE]

\* the field whose text so far is head, its unquoted rest running from position from up to e
field_upto(s, head, from, e) == field_ended(s, head \o SubSeq(s, from, e - 1), e)

\* the field whose text so far is head, continued unquoted from position from
field_rest(s, head, from) ==
    field_upto(s, head, from, IF from > Len(s) THEN Len(s) + 1 ELSE unquoted_end(s, from))

\* the quoted field opened at i whose closing quote is at close (0: the quote is never closed)
quoted_field(s, i, close) ==
    IF close = 0 THEN field_rest(s, unquote(s, i, i + 1, Len(s)), Len(s) + 1)
    ELSE field_rest(s, unquote(s, i, i + 1, close - 1), close + 1)

\* csv.reader from state START_FIELD at position i: the field, where the next one starts, and
\* whether the record ends with it
field_at(s, i) ==
    IF i > Len(s) THEN [value |-> "", next |-> i, last |-> TRUE]
    ELSE IF At(s, i) \in {"\n", "\r"} THEN [value |-> "", next |-> after_eol(s, i), last |-> TRUE]
    ELSE IF At(s, i) = "," THEN [value |-> "", next |-> i + 1, last |-> FALSE]
    ELSE IF At(s, i) = "\"" THEN quoted_field(s, i, closing_quote(s, i))
    ELSE field_rest(s, "", i)

RECURSIVE csv_record(_, _, _)
RECURSIVE csv_record_with(_, _, _)
\* the record whose fields so far are row, after its next field f
csv_record_with(s, row, f) ==
    IF f.last THEN [row |-> row \o <<f.value>>, next |-> f.next]
    ELSE csv_record(s, f.next, row \o <<f.value>>)

\* one record read from position i: its fields and the position after it
csv_record(s, i, row) == csv_record_with(s, row, field_at(s, i))

RECURSIVE csv_reader_from(_, _)
\* the rows from the record r on
csv_rows_with(s, r) == <<r.row>> \o csv_reader_from(s, r.next)

csv_reader_from(s, i) ==
    IF i > Len(s) THEN <<>>
    ELSE IF At(s, i) \in {"\n", "\r"} THEN <<<<>>>> \o csv_reader_from(s, after_eol(s, i))
    ELSE csv_rows_with(s, csv_record(s, i, <<>>))

\* csv.reader(f) with the excel dialect: the rows of the text
csv_reader(s) == csv_reader_from(s, 1)

\* (r.get(key) or "") for a csv.DictReader row
dict_get(fieldnames, row, key) ==
    LET ks == {k \in 1..Len(fieldnames) : fieldnames[k] = key /\ k <= Len(row)}
    IN  IF ks = {} THEN "" ELSE row[CHOOSE k \in ks : \A o \in ks : o <= k]

\* per_date[dt][name] = time on a date -> {student -> time} mapping
put(per_date, dt, name, time) ==
    LET old == IF dt \in DOMAIN per_date THEN per_date[dt] ELSE <<>>
        new == [n \in (DOMAIN old) \cup {name} |-> IF n = name THEN time ELSE old[n]]
    IN  [d \in (DOMAIN per_date) \cup {dt} |-> IF d = dt THEN new ELSE per_date[d]]


(***************************************************************************)
(* Readers                                                                  *)
(***************************************************************************)
\* the body of the row loop of read_from_csv: per_date after a row with these three values
read_csv_row(per_date, dt, name, time) ==
    IF dt = "" \/ name = "" THEN per_date ELSE put(per_date, dt, name, time)

RECURSIVE read_csv_rows(_, _, _, _)
\* the row loop of read_from_csv from row k on; DictReader passes over a row without fields
read_csv_rows(fieldnames, rows, k, per_date) ==
    IF k > Len(rows) THEN per_date
    ELSE IF rows[k] = <<>> THEN read_csv_rows(fieldnames, rows, k + 1, per_date)
    ELSE read_csv_rows(fieldnames, rows, k + 1,
            read_csv_row(per_date,
                         strip(dict_get(fieldnames, rows[k], "date")),
                         title(strip(dict_get(fieldnames, rows[k], "student_name"))),
                         strip(dict_get(fieldnames, rows[k], "check_in_time"))))

\* csv.DictReader over the rows of the file: the first row gives the field names
read_csv_table(rows) == IF rows = <<>> THEN <<>> ELSE read_csv_rows(rows[1], rows, 2, <<>>)

\* read_from_csv(csv_path): date -> {student -> time}
read_from_csv(file) == IF ~file.exists THEN <<>> ELSE read_csv_table(csv_reader(file.text))

\* \d{4}-\d{2}-\d{2} at position i
re_iso_date_at(s, i) ==
    /\ i + 9 <= Len(s)
    /\ \A k \in {0, 1, 2, 3, 5, 6, 8, 9} : At(s, i + k) \in DigitSet
    /\ At(s, i + 4) = "-"
    /\ At(s, i + 7) = "-"

section_mark == "=== Attendance for: "

\* the pattern === Attendance for: (\d{4}-\d{2}-\d{2}) === at position i
re_header_at(s, i) ==
    /\ starts_at(s, i, section_mark)
    /\ re_iso_date_at(s, i + Len(section_mark))
    /\ starts_at(s, i + Len(section_mark) + 10, " ===")

header_len == Len(section_mark) + 10 + 4

\* first position >= i where the header pattern matches, or 0
next_header(s, i) ==
    IF \E k \in i..Len(s) : re_header_at(s, k)
    THEN CHOOSE k \in i..Len(s) : re_header_at(s, k) /\ \A o \in i..(k - 1) : ~re_header_at(s, o)
    ELSE 0

RECURSIVE re_split_headers(_, _)
\* re.split(header pattern, txt) after its first piece: <<date, text, date, text, ...>>
re_split_headers(s, i) ==
    LET h == next_header(s, i)
    IN  IF h = 0 THEN <<>>
        ELSE LET body == h + header_len
                 n == next_header(s, body)
                 stop == IF n = 0 THEN Len(s) ELSE n - 1
             IN  << SubSeq(s, h + Len(section_mark), h + Len(section_mark) + 9), SubSeq(s, body, stop) >>
                     \o re_split_headers(s, body)

is_gap(s, i) == i + 1 <= Len(s) /\ At(s, i) \in SpaceSet /\ At(s, i + 1) \in SpaceSet

\* first position of two consecutive whitespace characters, or 0
first_gap(s) ==
    IF \E i \in 1..Len(s) : is_gap(s, i)
    THEN CHOOSE i \in 1..Len(s) : is_gap(s, i) /\ \A o \in 1..(i - 1) : ~is_gap(s, o)
    ELSE 0

\* last position that ends a run of two or more whitespace characters, or 0
last_gap_end(s) ==
    IF \E i \in 1..Len(s) : is_gap(s, i)
    THEN 1 + (CHOOSE i \in 1..Len(s) : is_gap(s, i) /\ \A o \in (i + 1)..Len(s) : ~is_gap(s, o))
    ELSE 0

\* re.search(r"\d{2}:\d{2}", time)
has_hhmm(time) ==
    \E i \in 1..Len(time) :
        /\ i + 4 <= Len(time)
        /\ \A k \in {0, 1, 3, 4} : At(time, i + k) \in DigitSet
        /\ At(time, i + 2) = ":"

\* re.search(r"AM|PM", time, re.IGNORECASE)
has_ampm(time) ==
    \E i \in 1..Len(time) : i + 1 <= Len(time) /\ lower(SubSeq(time, i, i + 1)) \in {"am", "pm"}

\* the body of the line loop of read_from_archive: per_date after one line of the section of date_str
read_archive_line(per_date, date_str, line) ==
    LET t == strip(line)
    IN  IF t = "" THEN per_date
        ELSE IF \A i \in 1..Len(t) : At(t, i) = "-" THEN per_date
        ELSE IF startswith(t, "Generated at") \/ startswith(t, "Student Name") \/ startswith(t, "Total")
             THEN per_date
        ELSE LET g == first_gap(t)
             IN  IF g = 0 THEN per_date
                 ELSE LET name == title(strip(SubSeq(t, 1, g - 1)))
                          time == strip(SubSeq(t, last_gap_end(t) + 1, Len(t)))
                      IN  IF (has_hhmm(time) \/ has_ampm(time) \/ time = "") /\ name # ""
                          THEN put(per_date, date_str, name, time)
                          ELSE per_date

RECURSIVE read_archive_lines(_, _, _, _)
read_archive_lines(per_date, date_str, lines, k) ==
    IF k > Len(lines) THEN per_date
    ELSE read_archive_lines(read_archive_line(per_date, date_str, lines[k]), date_str, lines, k + 1)

RECURSIVE read_archive_sections(_, _, _)
read_archive_sections(per_date, pieces, k) ==
    IF k > Len(pieces) THEN per_date
    ELSE read_archive_sections(
            read_archive_lines(per_date, strip(pieces[k]), splitlines(pieces[k + 1]), 1),
            pieces, k + 2)

\* read_from_archive(archive_path): date -> {student -> time}
read_from_archive(file) ==
    IF ~file.exists THEN <<>>
    ELSE read_archive_sections(<<>>, re_split_headers(file.text, 1), 1)

\* find_sections_from that stops after the first matching section
find_sections_first(content, iso, i) ==
    LET head == section_mark \o iso \o " ===\n"
        h == find_from(content, i, head)
    IN  IF h = 0 THEN <<>>
        ELSE LET body == h + Len(head)
                 n == find_from(content, body, "\n" \o section_mark)
                 stop == IF n = 0 THEN Len(content) ELSE n - 1
             IN  << section_mark \o iso \o " ===\n" \o strip(SubSeq(content, body, stop)) \o "\n" >>

\* find_sections_by_date: the blocks after position i whose header names iso
RECURSIVE find_sections_from(_, _, _)
find_sections_from(content, iso, i) ==
    LET head == section_mark \o iso \o " ===\n"
        h == find_from(content, i, head)
    IN  IF h = 0 THEN <<>>
        ELSE LET body == h + Len(head)
                 n == find_from(content, body, "\n" \o section_mark)
                 stop == IF n = 0 THEN Len(content) ELSE n - 1
             IN  << section_mark \o iso \o " ===\n" \o strip(SubSeq(content, body, stop)) \o "\n" >>
                     \o find_sections_from(content, iso, stop + 1)

\* find_sections_by_date(target_date): the matching sections of the archive, in file order
find_sections_by_date(file, target_date) ==
    IF ~file.exists THEN <<>>
    ELSE find_sections_from(file.text, isoformat(target_date), 1)


(***************************************************************************)
(* Roster and report                                                        *)
(***************************************************************************)
\* the title-cased non-blank lines of the roster text
roster_names(text) ==
    LET lines == splitlines(text)
    IN  {title(strip(lines[k])) : k \in {j \in 1..Len(lines) : strip(lines[j]) # ""}}

\* load_roster(): the names of ROSTER_FILE, de-duplicated, sorted case-insensitively
load_roster(file) == IF ~file.exists THEN <<>> ELSE sorted_by_lower(roster_names(file.text))

\* save_roster(names): the roster file after the save
save_roster(file, names) == write_text(file, join("\n", names))

Range(seq) == {seq[k] : k \in 1..Len(seq)}

\* build_master without the names of the roster file
build_master_without_file(per_date_map, roster_file) ==
    LET all_dates == sorted_keys(DOMAIN per_date_map)
        roster == UNION {DOMAIN per_date_map[d] : d \in DOMAIN per_date_map}
    IN  << all_dates, sorted_by_lower(roster), per_date_map >>

\* build_master(per_date_map): <<all_dates, roster_sorted, per_date_map>>
build_master(per_date_map, roster_file) ==
    LET all_dates == sorted_keys(DOMAIN per_date_map)
        roster == UNION {DOMAIN per_date_map[d] : d \in DOMAIN per_date_map}
                      \cup Range(load_roster(roster_file))
    IN  << all_dates, sorted_by_lower(roster), per_date_map >>

\* one row of a table of make_colored_pdf: [name, status, chk]
table_row(name, date_entries) ==
    IF name \in DOMAIN date_entries
    THEN << name, "Present", (IF date_entries[name] # "" THEN date_entries[name] ELSE "-") >>
    ELSE << name, "Absent", "-" >>

\* make_colored_pdf with date_entries taken once, from the first date
make_colored_pdf_first_date(ordered_dates, roster, per_date_map) ==
    IF ordered_dates = <<>> \/ roster = <<>>
    THEN [notice |-> "No attendance data found in CSV or archive.", tables |-> <<>>]
    ELSE [notice |-> "",
          tables |->
            [idx \in 1..Len(ordered_dates) |->
                LET dt == ordered_dates[idx]
                    date_entries == per_date_map[ordered_dates[1]]
                IN  [header |-> str(idx) \o ". Date: " \o dt,
                     table_data |-> << <<"Student Name", "Status", "Check-in Time">> >>
                                     \o [k \in 1..Len(roster) |-> table_row(roster[k], date_entries)],
                     page_break |-> idx % 3 = 0]]]

\* the story of make_colored_pdf: a notice, or one table per date
make_colored_pdf(ordered_dates, roster, per_date_map) ==
    IF ordered_dates = <<>> \/ roster = <<>>
    THEN [notice |-> "No attendance data found in CSV or archive.", tables |-> <<>>]
    ELSE [notice |-> "",
          tables |->
            [idx \in 1..Len(ordered_dates) |->
                LET dt == ordered_dates[idx]
                    date_entries == IF dt \in DOMAIN per_date_map THEN per_date_map[dt] ELSE <<>>
                IN  [header |-> str(idx) \o ". Date: " \o dt,
                     table_data |-> << <<"Student Name", "Status", "Check-in Time">> >>
                                     \o [k \in 1..Len(roster) |-> table_row(roster[k], date_entries)],
                     page_break |-> idx % 3 = 0]]]

\* the arguments after a make_colored_pdf that looked the date up with per_date_map[dt]: a
\* defaultdict gains an empty entry for a date it did not hold
inputs_after_render_inserting(ordered_dates, roster, per_date_map) ==
    << ordered_dates, roster,
       [d \in (DOMAIN per_date_map) \cup Range(ordered_dates) |->
            IF d \in DOMAIN per_date_map THEN per_date_map[d] ELSE <<>>] >>

\* the arguments of make_colored_pdf after the call: it reads them (enumerate, .get, in, for)
\* and assigns to none of them
inputs_after_render(ordered_dates, roster, per_date_map) == << ordered_dates, roster, per_date_map >>

\* "if not per_date: per_date = ...": the first mapping unless it is empty
first_nonempty(per_date, other) == IF DOMAIN per_date = {} THEN other ELSE per_date

\* the per-date map taken from the archive text whenever it yields an entry
report_source_archive_first(csv_file, archive_file) ==
    first_nonempty(read_from_archive(archive_file), read_from_csv(csv_file))

\* the per-date map generate_full_pdf_flow works from
report_source(csv_file, archive_file) ==
    first_nonempty(read_from_csv(csv_file), read_from_archive(archive_file))


(***************************************************************************)
(* Bounds and the inputs typed at the prompts                               *)
(***************************************************************************)
\* recordings started in one run of the program
MaxRuns == 2
\* menu handlers entered in one run of the program
MaxOps == 3
\* largest number of students typed at "How many students"
MaxCount == 2

\* datetime.now() / date.today(): the clock reading, in the format of stamp
Now == "2025-11-20 10:00:00"
today == strptime_date(SubSeq(Now, 1, 10))

MenuInputs == {"1", "2", "3", "4", "5", "9"}
DateInputs == {"", "2025-11-21", "21/11/2025"}
QueryInputs == {"today", "2025-11-21", "yesterday"}
CountInputs == {"0", "two"} \cup {str(n) : n \in 1..MaxCount}
NameInputs == {"", "al", " AL", "bo"}
TimeInputs == {"", "25:99", "09:15", "1:05pm"}
TotalInputs == {"many", "1", "3"}
YesNoInputs == {"Yes", "n"}
RosterMenuInputs == {"1", "2", "3", "4", "5", "6", "0"}
RosterNameInputs == {"", "cy"}
BulkInputs == {<<"bo", "BO">>}

VARIABLES
    pc,           \* where the program waits: the prompt it shows, "exit", or "crashed"
    ARCHIVE, CSV_LOG, ROSTER_FILE, EXPORT_FILE, OUT_PDF,   \* the files
    for_date, count, attendance, name, total, stamp,       \* locals of record_attendance_flow
    sections,     \* local of query_by_date_flow
    roster,       \* local of interactive_roster_editor
    master,       \* locals of generate_full_pdf_flow: <<ordered_dates, roster, data>>
    runs, ops,    \* recordings started, handlers entered
    \* history variables, no part of the program: what the calls that succeeded were given
    archived,     \* write_archive_section: <<[date, entries, strength], ...>>
    logged,       \* append_csv_rows: <<[date, entries], ...>>
    rendered,     \* the last make_colored_pdf: <<ordered_dates, roster, per_date_map>>
    \* contact_manager.py
    CSV_FILE,     \* contacts.csv
    contact_op    \* history variable: the last contact operation and the name typed for it

files == <<ARCHIVE, CSV_LOG, ROSTER_FILE, EXPORT_FILE, OUT_PDF>>
record_locals == <<for_date, count, attendance, name, total, stamp>>
other_locals == <<sections, roster, master>>
counters == <<runs, ops>>
history == <<archived, logged, rendered>>
contact_book == <<CSV_FILE, contact_op>>
vars == <<pc, files, record_locals, other_locals, counters, history, contact_book>>

NoOp == [op |-> "", name |-> "", found |-> FALSE]

NoPdf == [exists |-> FALSE, story |-> [notice |-> "", tables |-> <<>>]]

Init ==
    /\ pc = "menu"
    /\ ARCHIVE = NoFile /\ CSV_LOG = NoFile /\ ROSTER_FILE = NoFile /\ EXPORT_FILE = NoFile
    /\ OUT_PDF = NoPdf
    /\ for_date = <<>> /\ count = 0 /\ attendance = <<>> /\ name = "" /\ total = 0 /\ stamp = ""
    /\ sections = <<>> /\ roster = <<>> /\ master = <<>>
    /\ runs = 0 /\ ops = 0
    /\ archived = <<>> /\ logged = <<>> /\ rendered = <<>>
    /\ CSV_FILE = NoFile /\ contact_op = NoOp

\* an uncaught exception leaves main_menu: the process ends with a traceback
Crash == pc' = "crashed"

\* ask_yes_no(prompt) on the typed answer
ask_yes_no(answer) == lower(strip(answer)) \in {"y", "yes"}

(***************************************************************************)
(* main_menu                                                                *)
(***************************************************************************)
MenuRecord ==
    /\ pc = "menu" /\ runs < MaxRuns /\ ops < MaxOps
    /\ \E choice \in MenuInputs : strip(choice) = "1"
    /\ pc' = "record_date"
    /\ runs' = runs + 1 /\ ops' = ops + 1
    /\ UNCHANGED <<files, record_locals, other_locals, history>>
    /\ UNCHANGED contact_book

MenuQuery ==
    /\ pc = "menu" /\ ops < MaxOps
    /\ \E choice \in MenuInputs : strip(choice) = "2"
    /\ pc' = "query_date"
    /\ ops' = ops + 1
    /\ UNCHANGED <<files, record_locals, other_locals, runs, history>>
    /\ UNCHANGED contact_book

MenuExit ==
    /\ pc = "menu"
    /\ \E choice \in MenuInputs : strip(choice) = "5"
    /\ pc' = "exit"
    /\ UNCHANGED <<files, record_locals, other_locals, counters, history>>
    /\ UNCHANGED contact_book

MenuInvalid ==
    /\ pc = "menu"
    /\ \E choice \in MenuInputs : strip(choice) \notin {"1", "2", "3", "4", "5"}
    /\ pc' = "menu"
    /\ UNCHANGED <<files, record_locals, other_locals, counters, history>>
    /\ UNCHANGED contact_book

(***************************************************************************)
(* record_attendance_flow, one action per prompt                            *)
(***************************************************************************)
RecordDate ==
    /\ pc = "record_date"
    /\ \E date_inp \in DateInputs :
        LET d == strptime_date(strip(date_inp))
        IN  for_date' = IF strip(date_inp) = "" \/ d = <<>> THEN today ELSE d
    /\ attendance' = <<>>
    /\ pc' = "record_count"
    /\ UNCHANGED <<files, count, name, total, stamp, other_locals, counters, history>>
    /\ UNCHANGED contact_book

\* input_positive_int: a rejected input is asked again
RecordCount ==
    /\ pc = "record_count"
    /\ \E inp \in CountInputs :
        LET n == int(inp)
        IN  IF n = <<>> \/ n[1] <= 0
            THEN UNCHANGED <<pc, count>>
            ELSE count' = n[1] /\ pc' = "record_name"
    /\ UNCHANGED <<files, for_date, attendance, name, total, stamp, other_locals, counters, history>>
    /\ UNCHANGED contact_book

\* the name prompt without the call of title()
accept_name_untitled(inp, entries) ==
    LET raw_name == strip(inp)
    IN  IF raw_name = "" \/ lower(raw_name) \in {lower(n) : n \in DOMAIN entries}
        THEN ""
        ELSE raw_name

\* the name prompt: the title-cased name the flow accepts, or "" when it asks again
accept_name(inp, entries) ==
    LET raw_name == strip(inp)
    IN  IF raw_name = "" \/ lower(title(raw_name)) \in {lower(n) : n \in DOMAIN entries}
        THEN ""
        ELSE title(raw_name)

RecordName ==
    /\ pc = "record_name"
    /\ \E inp \in NameInputs :
        IF accept_name(inp, attendance) = ""
        THEN UNCHANGED <<pc, name>>
        ELSE name' = accept_name(inp, attendance) /\ pc' = "record_time"
    /\ UNCHANGED <<files, for_date, count, attendance, total, stamp, other_locals, counters, history>>
    /\ UNCHANGED contact_book

RecordTime ==
    /\ pc = "record_time"
    /\ \E inp \in TimeInputs :
        LET check_in_raw == strip(inp)
        IN  IF check_in_raw = "" \/ parse_time(check_in_raw) = ""
            THEN UNCHANGED <<pc, attendance, name>>
            ELSE /\ attendance' = [n \in (DOMAIN attendance) \cup {name} |->
                                      IF n = name THEN parse_time(check_in_raw) ELSE attendance[n]]
                 /\ name' = ""
                 /\ pc' = IF Cardinality(DOMAIN attendance) + 1 < count
                          THEN "record_name" ELSE "record_total"
    /\ UNCHANGED <<files, for_date, count, total, stamp, other_locals, counters, history>>
    /\ UNCHANGED contact_book

\* the class strength accepted without the comparison to the present count
valid_total_any(inp, present_count) == int(inp) # <<>>

\* the class strength typed is accepted
valid_total(inp, present_count) == int(inp) # <<>> /\ int(inp)[1] >= present_count

\* the class strength prompt, and on an accepted value the write to the archive
RecordTotal ==
    /\ pc = "record_total"
    /\ \E inp \in TotalInputs :
        LET present_count == Cardinality(DOMAIN attendance)
        IN  IF ~valid_total(inp, present_count)
            THEN UNCHANGED <<pc, total, stamp, ARCHIVE, archived>>
            ELSE /\ total' = int(inp)[1]
                 /\ stamp' = Now
                 /\ pc' = "record_csv"
                 /\ \/ /\ ARCHIVE' = write_archive_section(ARCHIVE, for_date, Now, attendance,
                                                           int(inp)[1], int(inp)[1] - present_count)
                       /\ archived' = Append(archived, [date |-> for_date, entries |-> attendance,
                                                        strength |-> int(inp)[1]])
                    \/ /\ ARCHIVE' = ARCHIVE       \* the write raises: caught, reported
                       /\ UNCHANGED archived
    /\ UNCHANGED <<CSV_LOG, ROSTER_FILE, EXPORT_FILE, OUT_PDF, for_date, count, attendance, name,
                   other_locals, counters, logged, rendered>>
    /\ UNCHANGED contact_book

\* the CSV prompt, the optional append to the structured log, and the return to the menu
RecordCsv ==
    /\ pc = "record_csv"
    /\ \E answer \in YesNoInputs :
        IF ask_yes_no(answer)
        THEN \/ /\ CSV_LOG' = append_csv_rows(CSV_LOG, for_date, stamp, attendance)
                /\ logged' = Append(logged, [date |-> for_date, entries |-> attendance])
             \/ /\ CSV_LOG' = CSV_LOG              \* the write raises: caught, reported
                /\ UNCHANGED logged
        ELSE CSV_LOG' = CSV_LOG /\ UNCHANGED logged
    /\ pc' = "menu"
    /\ for_date' = <<>> /\ count' = 0 /\ attendance' = <<>> /\ name' = "" /\ total' = 0 /\ stamp' = ""
    /\ UNCHANGED <<ARCHIVE, ROSTER_FILE, EXPORT_FILE, OUT_PDF, other_locals, counters, archived, rendered>>
    /\ UNCHANGED contact_book

(***************************************************************************)
(* query_by_date_flow                                                       *)
(***************************************************************************)
QueryDate ==
    /\ pc = "query_date"
    /\ \E inp \in QueryInputs :
        LET date_inp == strip(inp)
            target_date == IF lower(date_inp) = "today" THEN today ELSE strptime_date(date_inp)
        IN  IF target_date = <<>>
            THEN pc' = "menu" /\ UNCHANGED sections
            ELSE \/ /\ ARCHIVE.exists          \* ARCHIVE.read_text raises: nothing catches it
                    /\ Crash
                    /\ UNCHANGED sections
                 \/ LET found == find_sections_by_date(ARCHIVE, target_date)
                    IN  IF found = <<>>
                        THEN pc' = "menu" /\ UNCHANGED sections
                        ELSE pc' = "query_export" /\ sections' = found
    /\ UNCHANGED <<files, record_locals, roster, master, counters, history>>
    /\ UNCHANGED contact_book

QueryExport ==
    /\ pc = "query_export"
    /\ \E answer \in YesNoInputs :
        IF ask_yes_no(answer)
        THEN \/ EXPORT_FILE' = write_text(EXPORT_FILE, join("\n", sections))
             \/ EXPORT_FILE' = EXPORT_FILE         \* the write raises: caught, reported
        ELSE EXPORT_FILE' = EXPORT_FILE
    /\ pc' = "menu"
    /\ sections' = <<>>
    /\ UNCHANGED <<ARCHIVE, CSV_LOG, ROSTER_FILE, OUT_PDF, record_locals, roster, master, counters, history>>
    /\ UNCHANGED contact_book

(***************************************************************************)
(* interactive_roster_editor                                                *)
(***************************************************************************)
MenuRoster ==
    /\ pc = "menu" /\ ops < MaxOps
    /\ \E choice \in MenuInputs : strip(choice) = "3"
    /\ ops' = ops + 1
    /\ \/ /\ ROSTER_FILE.exists                \* ROSTER_FILE.read_text raises: nothing catches it
          /\ Crash
          /\ UNCHANGED roster
       \/ /\ roster' = load_roster(ROSTER_FILE)
          /\ pc' = "roster_menu"
    /\ UNCHANGED <<files, record_locals, sections, master, runs, history>>
    /\ UNCHANGED contact_book

\* list.remove(x): the list without the first occurrence of x
remove(list, x) ==
    LET k == CHOOSE i \in 1..Len(list) : list[i] = x /\ \A o \in 1..(i - 1) : list[o] # x
    IN  SubSeq(list, 1, k - 1) \o SubSeq(list, k + 1, Len(list))

RosterAdd ==
    /\ pc = "roster_menu"
    /\ \E ch \in RosterMenuInputs : strip(ch) = "1"
    /\ \E inp \in RosterNameInputs :
        LET nm == title(strip(inp))
        IN  IF nm = "" \/ nm \in Range(roster)
            THEN UNCHANGED roster
            ELSE roster' = sorted_by_lower(Range(roster) \cup {nm})
    /\ UNCHANGED <<pc, files, record_locals, sections, master, counters, history>>
    /\ UNCHANGED contact_book

RosterRemove ==
    /\ pc = "roster_menu"
    /\ \E ch \in RosterMenuInputs : strip(ch) = "2"
    /\ \E inp \in RosterNameInputs :
        LET nm == title(strip(inp))
        IN  IF nm \in Range(roster) THEN roster' = remove(roster, nm) ELSE UNCHANGED roster
    /\ UNCHANGED <<pc, files, record_locals, sections, master, counters, history>>
    /\ UNCHANGED contact_book

RosterView ==
    /\ pc = "roster_menu"
    /\ \E ch \in RosterMenuInputs : strip(ch) = "3"
    /\ UNCHANGED <<pc, files, record_locals, other_locals, counters, history>>
    /\ UNCHANGED contact_book

RosterReplace ==
    /\ pc = "roster_menu"
    /\ \E ch \in RosterMenuInputs : strip(ch) = "4"
    /\ \E lines \in BulkInputs :
        roster' = sorted_by_lower({title(strip(lines[k])) : k \in 1..Len(lines)})
    /\ UNCHANGED <<pc, files, record_locals, sections, master, counters, history>>
    /\ UNCHANGED contact_book

RosterSave ==
    /\ pc = "roster_menu"
    /\ \E ch \in RosterMenuInputs : strip(ch) = "5"
    /\ \/ Crash /\ UNCHANGED ROSTER_FILE       \* write_text raises: nothing catches it
       \/ ROSTER_FILE' = save_roster(ROSTER_FILE, roster) /\ pc' = "menu"
    /\ roster' = <<>>
    /\ UNCHANGED <<ARCHIVE, CSV_LOG, EXPORT_FILE, OUT_PDF, record_locals, sections, master, counters, history>>
    /\ UNCHANGED contact_book

RosterCancel ==
    /\ pc = "roster_menu"
    /\ \E ch \in RosterMenuInputs : strip(ch) = "6"
    /\ pc' = "menu"
    /\ roster' = <<>>
    /\ UNCHANGED <<files, record_locals, sections, master, counters, history>>
    /\ UNCHANGED contact_book

RosterInvalid ==
    /\ pc = "roster_menu"
    /\ \E ch \in RosterMenuInputs : strip(ch) \notin {"1", "2", "3", "4", "5", "6"}
    /\ UNCHANGED <<pc, files, record_locals, other_locals, counters, history>>
    /\ UNCHANGED contact_book

(***************************************************************************)
(* generate_full_pdf_flow                                                   *)
(***************************************************************************)
\* up to the call of make_colored_pdf: read the sources, build the master lists
MenuPdf ==
    /\ pc = "menu" /\ ops < MaxOps
    /\ \E choice \in MenuInputs : strip(choice) = "4"
    /\ ops' = ops + 1
    /\ \/ /\ CSV_LOG.exists \/ ARCHIVE.exists \/ ROSTER_FILE.exists   \* a read raises: nothing catches it
          /\ Crash
          /\ UNCHANGED master
       \/ \E per_date \in {report_source(CSV_LOG, ARCHIVE)} :
              IF DOMAIN per_date = {}
              THEN pc' = "menu" /\ UNCHANGED master
              ELSE master' = build_master(per_date, ROSTER_FILE) /\ pc' = "pdf_render"
    /\ UNCHANGED <<files, record_locals, sections, roster, runs, history>>
    /\ UNCHANGED contact_book

\* make_colored_pdf and the return to the menu
PdfRender ==
    /\ pc = "pdf_render"
    /\ \/ Crash /\ UNCHANGED <<OUT_PDF, rendered>>    \* doc.build raises: nothing catches it
       \/ /\ OUT_PDF' = [exists |-> TRUE, story |-> make_colored_pdf(master[1], master[2], master[3])]
          /\ rendered' = master
          /\ pc' = "menu"
    /\ master' = <<>>
    /\ UNCHANGED <<ARCHIVE, CSV_LOG, ROSTER_FILE, EXPORT_FILE, record_locals, sections, roster, counters, archived, logged>>
    /\ UNCHANGED contact_book

Next ==
    \/ MenuRecord \/ MenuQuery \/ MenuRoster \/ MenuPdf \/ MenuExit \/ MenuInvalid
    \/ RecordDate \/ RecordCount \/ RecordName \/ RecordTime \/ RecordTotal \/ RecordCsv
    \/ QueryDate \/ QueryExport
    \/ RosterAdd \/ RosterRemove \/ RosterView \/ RosterReplace \/ RosterSave \/ RosterCancel
    \/ RosterInvalid
    \/ PdfRender

Spec == Init /\ [][Next]_vars

(***************************************************************************)
(* The two writers and the two readers on the entries the recording flow     *)
(* accepts: entries are drawn, both files are written from them              *)
(***************************************************************************)
RTNameInputs ==
    {"al", "bo, jr", "al  bo", "total al", "student name al", "maximilian alexander stone"}
RTDateInputs == {"", "2025-11-21"}

\* the names and times the prompts of record_attendance_flow accept
RTNames == {accept_name(r, <<>>) : r \in RTNameInputs} \ {""}
RTTimes == {parse_time(t) : t \in TimeInputs} \ {""}

\* the attendance dicts the flow can build from them: no two names equal ignoring case
RTEntries ==
    UNION {[S -> RTTimes] :
              S \in {T \in SUBSET RTNames :
                        /\ Cardinality(T) \in 1..MaxCount
                        /\ \A a, b \in T : lower(a) = lower(b) => a = b}}

InitRT ==
    /\ pc = "rt_entries"
    /\ ARCHIVE = NoFile /\ CSV_LOG = NoFile /\ ROSTER_FILE = NoFile /\ EXPORT_FILE = NoFile
    /\ OUT_PDF = NoPdf
    /\ \E d \in RTDateInputs : for_date = (IF d = "" THEN today ELSE strptime_date(d))
    /\ attendance \in RTEntries
    /\ count = Cardinality(DOMAIN attendance)
    /\ name = "" /\ total = Cardinality(DOMAIN attendance) /\ stamp = Now
    /\ sections = <<>> /\ roster = <<>> /\ master = <<>>
    /\ runs = 1 /\ ops = 1
    /\ archived = <<>> /\ logged = <<>> /\ rendered = <<>>
    /\ CSV_FILE = NoFile /\ contact_op = NoOp

\* write_archive_section and append_csv_rows on the same entries
RTWrite ==
    /\ pc = "rt_entries"
    /\ ARCHIVE' = write_archive_section(ARCHIVE, for_date, stamp, attendance, total, 0)
    /\ CSV_LOG' = append_csv_rows(CSV_LOG, for_date, stamp, attendance)
    /\ archived' = Append(archived, [date |-> for_date, entries |-> attendance, strength |-> total])
    /\ logged' = Append(logged, [date |-> for_date, entries |-> attendance])
    /\ pc' = "rt_written"
    /\ UNCHANGED <<ROSTER_FILE, EXPORT_FILE, OUT_PDF, record_locals, other_locals, counters, rendered>>
    /\ UNCHANGED contact_book

NextRT == RTWrite

SpecRT == InitRT /\ [][NextRT]_vars

(***************************************************************************)
(* make_colored_pdf called twice on the same arguments                       *)
(***************************************************************************)
RenderDates == {<<>>, <<"2025-11-20">>, <<"2025-11-20", "2025-11-21">>}
RenderRosters == {<<>>, <<"Al">>, <<"Al", "Bo">>}
RenderEntries == {<<>>, [n \in {"Al"} |-> "09:15 AM"], [n \in {"Al", "Bo"} |-> "01:05 PM"]}
RenderMaps == UNION {[D -> RenderEntries] : D \in SUBSET {"2025-11-20", "2025-11-21"}}

InitRender ==
    /\ pc = "render_first"
    /\ ARCHIVE = NoFile /\ CSV_LOG = NoFile /\ ROSTER_FILE = NoFile /\ EXPORT_FILE = NoFile
    /\ OUT_PDF = NoPdf
    /\ for_date = <<>> /\ count = 0 /\ attendance = <<>> /\ name = "" /\ total = 0 /\ stamp = ""
    /\ sections = <<>> /\ roster = <<>>
    /\ master \in RenderDates \X RenderRosters \X RenderMaps
    /\ runs = 0 /\ ops = 1
    /\ archived = <<>> /\ logged = <<>> /\ rendered = <<>>
    /\ CSV_FILE = NoFile /\ contact_op = NoOp

\* one call make_colored_pdf(OUT_PDF, ordered_dates, roster, data) that returns
Render ==
    /\ pc \in {"render_first", "render_second"}
    /\ OUT_PDF' = [exists |-> TRUE, story |-> make_colored_pdf(master[1], master[2], master[3])]
    /\ master' = inputs_after_render(master[1], master[2], master[3])
    /\ rendered' = master
    /\ pc' = IF pc = "render_first" THEN "render_second" ELSE "render_done"
    /\ UNCHANGED <<ARCHIVE, CSV_LOG, ROSTER_FILE, EXPORT_FILE, record_locals, sections, roster,
                   counters, archived, logged>>
    /\ UNCHANGED contact_book

NextRender == Render

SpecRender == InitRender /\ [][NextRender]_vars

(***************************************************************************)
(* Contact book (Contact_manager/contact_manager.py)                        *)
(***************************************************************************)
CSV_FIELDS == <<"name", "phone", "email">>

\* creates the contacts file with its header line when it is missing
ensure_csv_exists(file) ==
    IF file.exists THEN file ELSE write_text(file, writerow(CSV_FIELDS))

\* any(row.values()) on the dictionary csv.DictReader makes of a row: fields
\* beyond the header are collected into one non-empty list
row_kept(fieldnames, row) ==
    Len(row) > Len(fieldnames) \/ \E k \in 1..Len(row) : row[k] # ""

\* {k: (v or "").strip() for k, v in row.items()}
contact_of(fieldnames, row) ==
    [f \in Range(fieldnames) |-> strip(dict_get(fieldnames, row, f))]

contacts_from(rows) ==
    IF rows = <<>> THEN <<>>
    ELSE LET kept == SelectSeq(Tail(rows), LAMBDA row : row_kept(rows[1], row))
         IN  [k \in 1..Len(kept) |-> contact_of(rows[1], kept[k])]

\* a row with more fields than the header has a list under the key None, and
\* stripping it raises
load_raises_from(rows) ==
    rows # <<>> /\ \E k \in 2..Len(rows) : Len(rows[k]) > Len(rows[1])

load_contacts_from_csv(file) == contacts_from(csv_reader(file.text))

\* c.get(k, "")
contact_get(c, k) == IF k \in DOMAIN c THEN c[k] ELSE ""

save_contacts_to_csv(file, contacts) ==
    write_text(file, writerow(CSV_FIELDS) \o
        join("", [k \in 1..Len(contacts) |->
                    writerow([i \in 1..Len(CSV_FIELDS) |-> contact_get(contacts[k], CSV_FIELDS[i])])]))

\* the files a call of save_contacts_to_csv can leave: the saved one, the old
\* one when open() raises, an empty one when a write raises after open(.., "w")
save_outcomes(file, contacts) ==
    {save_contacts_to_csv(file, contacts), file, write_text(file, "")}

\* c["name"] raises KeyError when the file's header has no name column
name_missing(contacts) == contacts # <<>> /\ "name" \notin DOMAIN contacts[1]

name_exists_exact(contacts, typed) ==
    \E k \in 1..Len(contacts) : contacts[k]["name"] = typed

\* c["name"].lower() == name.lower() for some c in contacts
name_exists(contacts, typed) ==
    \E k \in 1..Len(contacts) : lower(contacts[k]["name"]) = lower(typed)

add_contact_to(file, contacts, typed, phone, email) ==
    IF name_missing(contacts) \/ name_exists(contacts, typed) THEN {file}
    ELSE save_outcomes(file, Append(contacts, [name |-> typed, phone |-> phone, email |-> email]))

\* the contacts files add_contact can leave for the three typed lines, where
\* file is ensure_csv_exists(old) and rows is what csv.reader makes of it
add_contact(old, file, rows, typed_name, typed_phone, typed_email) ==
    IF strip(typed_name) = "" THEN {old}
    ELSE IF load_raises_from(rows) THEN {file}
    ELSE add_contact_to(file, contacts_from(rows),
                        strip(typed_name), strip(typed_phone), strip(typed_email))

first_match(contacts, key) ==
    CHOOSE k \in 1..Len(contacts) :
        /\ lower(contacts[k]["name"]) = lower(key)
        /\ \A j \in 1..(k - 1) : lower(contacts[j]["name"]) # lower(key)

\* c["phone"] = new_phone, c["email"] = new_email, each only for a non-empty answer
updated(c, new_phone, new_email) ==
    [c EXCEPT !["phone"] = IF new_phone # "" THEN new_phone ELSE @,
              !["email"] = IF new_email # "" THEN new_email ELSE @]

update_contact_in(file, contacts, key, new_phone, new_email) ==
    IF name_missing(contacts) \/ ~name_exists(contacts, key) THEN {file}
    ELSE IF ~({"phone", "email"} \subseteq DOMAIN contacts[first_match(contacts, key)]) THEN {file}
    ELSE save_outcomes(file, [contacts EXCEPT ![first_match(contacts, key)] =
                                                 updated(@, new_phone, new_email)])

update_contact(old, file, rows, typed_key, typed_phone, typed_email) ==
    IF strip(typed_key) = "" THEN {old}
    ELSE IF load_raises_from(rows) THEN {file}
    ELSE update_contact_in(file, contacts_from(rows),
                           strip(typed_key), strip(typed_phone), strip(typed_email))

\* [c for c in contacts if c["name"].lower() != key.lower()]
new_contacts(contacts, key) ==
    SelectSeq(contacts, LAMBDA c : lower(c["name"]) # lower(key))

delete_contact_in(file, contacts, key) ==
    IF name_missing(contacts) \/ Len(new_contacts(contacts, key)) = Len(contacts) THEN {file}
    ELSE save_outcomes(file, new_contacts(contacts, key))

delete_contact(old, file, rows, typed_key) ==
    IF strip(typed_key) = "" THEN {old}
    ELSE IF load_raises_from(rows) THEN {file}
    ELSE delete_contact_in(file, contacts_from(rows), strip(typed_key))

\* history: some contact of the list has this name, compared without case
HasName(contacts, typed) ==
    \E k \in 1..Len(contacts) : lower(contacts[k]["name"]) = lower(typed)

ContactNameInputs == {"", "al", " AL", "bo, jr"}
ContactPhoneInputs == {"", " 2"}
ContactEmailInputs == {"", "a@x"}
ContactChoices == {"1", "2", "3", "4", "5", "6", "7", "8", "9"}

\* main() has run ensure_csv_exists() and shows the menu
InitContacts ==
    /\ pc = "contact_menu"
    /\ ARCHIVE = NoFile /\ CSV_LOG = NoFile /\ ROSTER_FILE = NoFile /\ EXPORT_FILE = NoFile
    /\ OUT_PDF = NoPdf
    /\ for_date = <<>> /\ count = 0 /\ attendance = <<>> /\ name = "" /\ total = 0 /\ stamp = ""
    /\ sections = <<>> /\ roster = <<>> /\ master = <<>>
    /\ runs = 0 /\ ops = 1
    /\ archived = <<>> /\ logged = <<>> /\ rendered = <<>>
    /\ CSV_FILE = ensure_csv_exists(NoFile) /\ contact_op = NoOp

tracker_state == <<files, record_locals, other_locals, counters, history>>

\* choice 1
ContactAdd ==
    /\ pc = "contact_menu"
    /\ \E file \in {ensure_csv_exists(CSV_FILE)} : \E rows \in {csv_reader(file.text)} :
       \E typed_name \in ContactNameInputs, typed_phone \in ContactPhoneInputs,
          typed_email \in ContactEmailInputs :
        /\ CSV_FILE' \in add_contact(CSV_FILE, file, rows, typed_name, typed_phone, typed_email)
        /\ contact_op' = [op |-> "add", name |-> strip(typed_name),
                          found |-> HasName(contacts_from(rows), strip(typed_name))]
    /\ UNCHANGED <<pc, tracker_state>>

\* choice 4
ContactUpdate ==
    /\ pc = "contact_menu"
    /\ \E file \in {ensure_csv_exists(CSV_FILE)} : \E rows \in {csv_reader(file.text)} :
       \E typed_key \in ContactNameInputs, typed_phone \in ContactPhoneInputs,
          typed_email \in ContactEmailInputs :
        /\ CSV_FILE' \in update_contact(CSV_FILE, file, rows, typed_key, typed_phone, typed_email)
        /\ contact_op' = [op |-> "update", name |-> strip(typed_key),
                          found |-> HasName(contacts_from(rows), strip(typed_key))]
    /\ UNCHANGED <<pc, tracker_state>>

\* choice 5
ContactDelete ==
    /\ pc = "contact_menu"
    /\ \E file \in {ensure_csv_exists(CSV_FILE)} : \E rows \in {csv_reader(file.text)} :
       \E typed_key \in ContactNameInputs :
        /\ CSV_FILE' \in delete_contact(CSV_FILE, file, rows, typed_key)
        /\ contact_op' = [op |-> "delete", name |-> strip(typed_key),
                          found |-> HasName(contacts_from(rows), strip(typed_key))]
    /\ UNCHANGED <<pc, tracker_state>>

\* choices 2, 3 and 6 (display, search, export) load the contacts file, choice 7
\* (import) reads the JSON file, any other answer prints a message
ContactOther ==
    /\ pc = "contact_menu"
    /\ \E choice \in ContactChoices :
        /\ choice \notin {"1", "4", "5", "8"}
        /\ CSV_FILE' = IF choice \in {"2", "3", "6"} THEN ensure_csv_exists(CSV_FILE) ELSE CSV_FILE
    /\ contact_op' = [op |-> "other", name |-> "", found |-> FALSE]
    /\ UNCHANGED <<pc, tracker_state>>

\* choice 8
ContactExit ==
    /\ pc = "contact_menu"
    /\ \E choice \in ContactChoices : choice = "8"
    /\ pc' = "contact_exit"
    /\ UNCHANGED <<tracker_state, contact_book>>

NextContacts ==
    \/ ContactAdd
    \/ ContactUpdate
    \/ ContactDelete
    \/ ContactOther
    \/ ContactExit

SpecContacts == InitContacts /\ [][NextContacts]_vars

(***************************************************************************)
(* Properties                                                               *)
(***************************************************************************)
IsPrefix(a, b) == Len(a) <= Len(b) /\ SubSeq(b, 1, Len(a)) = a

\* the (date, student) pairs of a date -> {student -> time} mapping
Pairs(per_date) == UNION {{<<d, n>> : n \in DOMAIN per_date[d]} : d \in DOMAIN per_date}

\* the numbers that the lines of a block give after a label
Labelled(block, label) ==
    LET lines == splitlines(block)
    IN  {int(SubSeq(lines[k], Len(label) + 1, Len(lines[k]))) :
            k \in {j \in 1..Len(lines) : startswith(lines[j], label)}}

\* the dates the prompts can name
AllDates ==
    {today} \cup {strptime_date(strip(d)) : d \in {x \in DateInputs \cup QueryInputs : strptime_date(strip(x)) # <<>>}}

\* the sections appended so far for date d, oldest first
ArchivedFor(d) == LET on(r) == r.date = d IN SelectSeq(archived, on)

\* the number of sections in the archive text
SectionCount == Len(re_split_headers(ARCHIVE.text, 1)) \div 2

\* C1: entries written by write_archive_section and read by read_from_archive give the same
\* date -> {student -> time} mapping as the same entries written by append_csv_rows and read
\* by read_from_csv, for every name the recording flow accepts.
C1_SameMapping == pc = "rt_written" => read_from_csv(CSV_LOG) = read_from_archive(ARCHIVE)

\* C2: right after write_archive_section has appended a section for a date, with a class
\* strength no smaller than the number of entries, find_sections_by_date for that date returns
\* a block (the last one) whose "Total Students Present" is the number of entries and whose
\* "Total Absent" is the strength minus the number of entries, whatever the archive held before.
\* (The archive changes in RecordTotal alone, which leaves the program at the CSV prompt.)
C2_BlockReportsCounts ==
    pc = "record_csv" /\ archived # <<>> =>
        LET r == archived[Len(archived)]
            blocks == find_sections_by_date(ARCHIVE, r.date)
            present == Cardinality(DOMAIN r.entries)
        IN  /\ blocks # <<>>
            /\ Labelled(blocks[Len(blocks)], "Total Students Present: ") = {<<present>>}
            /\ Labelled(blocks[Len(blocks)], "Total Absent: ") = {<<r.strength - present>>}

C2_Witness ==
    /\ Len(archived) = 2
    /\ archived[1].date = archived[2].date
    /\ archived[1].entries # archived[2].entries
    /\ archived[2].strength > Cardinality(DOMAIN archived[2].entries)

\* C3: the archive is append-only: every step of the program leaves the archive text it found
\* as a prefix of the archive text it leaves, and never removes the file.
C3_ArchiveAppendOnly ==
    [][(ARCHIVE.exists => ARCHIVE'.exists) /\ IsPrefix(ARCHIVE.text, ARCHIVE'.text)]_vars

C3_Witness ==
    /\ pc = "menu"
    /\ EXPORT_FILE.exists
    /\ SectionCount = 2

\* C4 as claimed: at the menu, every (date, student) of the archive is in the structured log.
C4_EveryRecordingInLog ==
    pc = "menu" => Pairs(read_from_archive(ARCHIVE)) \subseteq Pairs(read_from_csv(CSV_LOG))

\* C4 amended: the structured log holds every (date, student) of every recording whose rows
\* were appended (the user answered yes to the CSV prompt and the write succeeded), and it
\* holds no other (date, student).
C4_LoggedRecordingsInLog ==
    Pairs(read_from_csv(CSV_LOG))
        = UNION {{<<isoformat(logged[k].date), n>> : n \in DOMAIN logged[k].entries} : k \in 1..Len(logged)}

C4_Witness ==
    /\ pc = "menu"
    /\ logged # <<>>
    /\ Len(archived) > Len(logged)
    /\ ~(Pairs(read_from_archive(ARCHIVE)) \subseteq Pairs(read_from_csv(CSV_LOG)))

\* C5: a file failure inside a menu handler never ends the program: it is never left by an
\* uncaught exception.
C5_FailureReturnsToMenu == pc # "crashed"

\* the rows of a table below its heading row
BodyRows(table) == Tail(table.table_data)

\* C6: a report made from non-empty dates and roster has one table per date, and in it one row
\* per roster member and no other row; the row is Present with the recorded check-in time when
\* the member is a key of that date's map, and Absent with "-" otherwise.
C6_RowPerMember ==
    OUT_PDF.exists /\ rendered[1] # <<>> /\ rendered[2] # <<>> =>
        LET dates == rendered[1]
            members == rendered[2]
            data == rendered[3]
            tables == OUT_PDF.story.tables
        IN  /\ Len(tables) = Len(dates)
            /\ \A i \in 1..Len(dates) :
                LET rows == BodyRows(tables[i])
                IN  /\ Len(rows) = Len(members)
                    /\ \A nm \in Range(members) :
                        LET mine == {k \in 1..Len(rows) : rows[k][1] = nm}
                        IN  /\ Cardinality(mine) = 1
                            /\ \A k \in mine :
                                IF nm \in DOMAIN data[dates[i]]
                                THEN rows[k][2] = "Present" /\ rows[k][3] = data[dates[i]][nm]
                                ELSE rows[k][2] = "Absent" /\ rows[k][3] = "-"

C6_Witness ==
    /\ OUT_PDF.exists
    /\ Len(OUT_PDF.story.tables) = 2
    /\ \E i, j \in 1..2 : \E k \in 1..Len(BodyRows(OUT_PDF.story.tables[1])) :
        /\ BodyRows(OUT_PDF.story.tables[i])[k][2] = "Present"
        /\ BodyRows(OUT_PDF.story.tables[i])[k][3] = "01:05 PM"
        /\ BodyRows(OUT_PDF.story.tables[j])[k][2] = "Absent"

\* a 12-hour "HH:MM AM/PM" string with hour 01-12 and minute 00-59
IsClock12(t) ==
    /\ Len(t) = 8
    /\ all_digits(SubSeq(t, 1, 2)) /\ nat_val(SubSeq(t, 1, 2), 1, 0) \in 1..12
    /\ At(t, 3) = ":"
    /\ all_digits(SubSeq(t, 4, 5)) /\ nat_val(SubSeq(t, 4, 5), 1, 0) \in 0..59
    /\ At(t, 6) = " "
    /\ SubSeq(t, 7, 8) \in {"AM", "PM"}

\* the check-in times of a date -> {student -> time} mapping
Times(per_date) == UNION {{per_date[d][n] : n \in DOMAIN per_date[d]} : d \in DOMAIN per_date}

\* C7: every check-in time of an entry being recorded, of the archive and of the structured log
\* is a 12-hour "HH:MM AM/PM" string with hour 01-12 and minute 00-59: a time that parse_time
\* rejects never reaches an entry. (The archive is read where it has just been written, at the
\* CSV prompt; the structured log where it has just been written, at the menu.)
C7_StoredTimesNormalized ==
    /\ \A n \in DOMAIN attendance : IsClock12(attendance[n])
    /\ pc = "record_csv" => \A t \in Times(read_from_archive(ARCHIVE)) : IsClock12(t)
    /\ pc = "menu" => \A t \in Times(read_from_csv(CSV_LOG)) : IsClock12(t)

C7_Witness ==
    /\ pc = "menu"
    /\ "01:05 PM" \in Times(read_from_csv(CSV_LOG))
    /\ "09:15 AM" \in Times(read_from_archive(ARCHIVE))

\* the block find_sections_by_date gives for a section that was appended
BlockOf(r) ==
    strip(join("\n", section_lines(r.date, Now, r.entries, r.strength,
                                   r.strength - Cardinality(DOMAIN r.entries)))) \o "\n"

\* C8: for every date, find_sections_by_date returns one block for each section appended for
\* that date, in append order and verbatim, and no other block.
C8_OneBlockPerSection ==
    pc = "record_csv" =>
        \A d \in AllDates :
            LET blocks == find_sections_by_date(ARCHIVE, d)
                mine == ArchivedFor(d)
            IN  /\ Len(blocks) = Len(mine)
                /\ \A k \in 1..Len(mine) : blocks[k] = BlockOf(mine[k])

C8_Witness ==
    /\ pc = "record_csv"
    /\ Len(archived) = 2
    /\ archived[1].date = archived[2].date
    /\ archived[1].entries # archived[2].entries
    /\ Len(find_sections_by_date(ARCHIVE, archived[1].date)) = 2

\* C9: the per-date map of a report is the structured log's whenever the log yields an entry,
\* and the archive's otherwise; no report is made from an empty map.
C9_SourcePolicy ==
    /\ pc = "pdf_render" =>
        LET log == read_from_csv(CSV_LOG)
        IN  /\ DOMAIN master[3] # {}
            /\ DOMAIN log # {} => master[3] = log
            /\ DOMAIN log = {} => master[3] = read_from_archive(ARCHIVE)
    /\ OUT_PDF.exists => DOMAIN rendered[3] # {}

C9_Witness ==
    /\ pc = "pdf_render"
    /\ DOMAIN read_from_csv(CSV_LOG) # {}
    /\ DOMAIN read_from_archive(ARCHIVE) # {}
    /\ read_from_csv(CSV_LOG) # read_from_archive(ARCHIVE)

\* the entry rows of a section's text: its lines other than blank lines, rules and labelled lines
EntryRows(piece) ==
    LET lines == splitlines(piece)
    IN  Cardinality({k \in 1..Len(lines) :
            LET t == strip(lines[k])
            IN  /\ t # ""
                /\ \E i \in 1..Len(t) : At(t, i) # "-"
                /\ ~startswith(t, "Generated at") /\ ~startswith(t, "Student Name")
                /\ ~startswith(t, "Total")})

\* C10: every section of the archive reports as present the number of its entry rows, a class
\* strength no smaller than that, and as absent the class strength minus the present count.
C10_SectionCountsConsistent ==
    pc = "record_csv" =>
        LET pieces == re_split_headers(ARCHIVE.text, 1)
        IN  /\ Len(pieces) = 2 * Len(archived)
            /\ \A k \in 1..Len(archived) :
                LET piece == pieces[2 * k]
                    present == EntryRows(piece)
                    strength == Labelled(piece, "Total Students (Class Strength): ")
                IN  /\ present = Cardinality(DOMAIN archived[k].entries)
                    /\ Labelled(piece, "Total Students Present: ") = {<<present>>}
                    /\ strength = {<<archived[k].strength>>}
                    /\ archived[k].strength >= present
                    /\ Labelled(piece, "Total Absent: ") = {<<archived[k].strength - present>>}

C10_Witness ==
    /\ pc = "record_csv"
    /\ Len(archived) = 2
    /\ Cardinality(DOMAIN archived[1].entries) = 2 /\ archived[1].strength = 3
    /\ Cardinality(DOMAIN archived[2].entries) = 1 /\ archived[2].strength = 1

\* the positions of the entry rows among the lines of a section's text
EntryLines(lines) ==
    {k \in 1..Len(lines) :
        LET t == strip(lines[k])
        IN  /\ t # ""
            /\ \E i \in 1..Len(t) : At(t, i) # "-"
            /\ ~startswith(t, "Generated at") /\ ~startswith(t, "Student Name")
            /\ ~startswith(t, "Total")}

\* the student name of an entry row: the row without its 8-character check-in time
EntryName(line) == strip(SubSeq(line, 1, Len(strip(line)) - 8))

\* the names of the entry rows of a section text (or of several, joined), one per row
StoredNames(text) ==
    LET lines == splitlines(text)
    IN  [k \in EntryLines(lines) |-> EntryName(lines[k])]

\* no two of the names are equal ignoring case
NoRepeat(names) ==
    \A a, b \in DOMAIN names : a # b => lower(names[a]) # lower(names[b])

\* the data rows of the structured log
DataRows == LET rows == csv_reader(CSV_LOG.text) IN IF rows = <<>> THEN <<>> ELSE Tail(rows)

\* C11 as claimed: for every date, the entry rows that the archive holds for the date, over all its
\* sections, and the rows that the structured log holds for the date, name each student at most
\* once ignoring case, also when the date was recorded in more than one run.
C11_UniquePerDate ==
    /\ pc = "record_csv" =>
        \A d \in AllDates : NoRepeat(StoredNames(join("\n", find_sections_by_date(ARCHIVE, d))))
    /\ pc = "menu" =>
        \A j, k \in 1..Len(DataRows) :
            j # k /\ DataRows[j][2] = DataRows[k][2] => lower(DataRows[j][3]) # lower(DataRows[k][3])

\* C11 amended: every stored student name is title-cased; the entry being recorded and every
\* single section of the archive name each student at most once ignoring case; and the
\* date -> {student -> time} mapping read back from the structured log has, for each date, no
\* two names equal ignoring case.
C11_TitledUniquePerSection ==
    /\ \A n \in DOMAIN attendance : n = title(n)
    /\ \A a, b \in DOMAIN attendance : lower(a) = lower(b) => a = b
    /\ pc = "record_csv" =>
        LET pieces == re_split_headers(ARCHIVE.text, 1)
        IN  \A j \in 1..(Len(pieces) \div 2) :
                LET names == StoredNames(pieces[2 * j])
                IN  /\ NoRepeat(names)
                    /\ \A k \in DOMAIN names : names[k] = title(names[k])
                    /\ {names[k] : k \in DOMAIN names} = DOMAIN archived[j].entries
    /\ pc = "menu" =>
        LET rows == DataRows
            per_date == read_from_csv(CSV_LOG)
        IN  /\ \A k \in 1..Len(rows) : rows[k][3] = title(rows[k][3])
            /\ \A d \in DOMAIN per_date : \A a, b \in DOMAIN per_date[d] : lower(a) = lower(b) => a = b

C11_Witness ==
    /\ pc = "record_csv"
    /\ Len(archived) = 2
    /\ archived[1].date = archived[2].date
    /\ DOMAIN archived[1].entries \cap DOMAIN archived[2].entries # {}
    /\ Len(find_sections_by_date(ARCHIVE, archived[1].date)) = 2
    /\ Len(DataRows) >= 1

C13_MasterLists ==
    pc = "pdf_render" =>
        LET all_dates == master[1]
            roster_sorted == master[2]
        IN  /\ Range(all_dates) = DOMAIN master[3]
            /\ \A k \in 1..(Len(all_dates) - 1) : str_less(all_dates[k], all_dates[k + 1])
            /\ Range(roster_sorted)
                 = UNION {DOMAIN master[3][d] : d \in DOMAIN master[3]} \cup Range(load_roster(ROSTER_FILE))
            /\ \A k \in 1..(Len(roster_sorted) - 1) :
                 str_less(lower(roster_sorted[k]), lower(roster_sorted[k + 1]))
            /\ master[3] = report_source(CSV_LOG, ARCHIVE)

C13_Witness ==
    /\ pc = "pdf_render"
    /\ Len(master[2]) = 3
    /\ \E n \in Range(load_roster(ROSTER_FILE)) : \A d \in DOMAIN master[3] : n \notin DOMAIN master[3][d]

RECURSIVE LoggedRows(_)
\* the rows that the first k calls of append_csv_rows were given, in call order
LoggedRows(k) ==
    IF k = 0 THEN <<>>
    ELSE LET names == sorted_by_lower(DOMAIN logged[k].entries)
         IN  LoggedRows(k - 1)
                \o [i \in 1..Len(names) |->
                        <<Now, isoformat(logged[k].date), names[i], logged[k].entries[names[i]]>>]

\* C14: once append_csv_rows has created the structured log, its first row is the header row
\* (generated_at, date, student_name, check_in_time), no other row is a header row, and the
\* other rows are the data rows of the calls, in call order; before the first call there is no file.
C14_OneHeaderFirst ==
    pc = "menu" =>
        LET rows == csv_reader(CSV_LOG.text)
        IN  /\ CSV_LOG.exists <=> logged # <<>>
            /\ CSV_LOG.exists =>
                /\ rows # <<>>
                /\ rows[1] = csv_header
                /\ \A k \in 2..Len(rows) : rows[k] # csv_header
                /\ Tail(rows) = LoggedRows(Len(logged))

C14_Witness ==
    /\ pc = "menu"
    /\ Len(logged) = 2
    /\ Len(csv_reader(CSV_LOG.text)) >= 4

\* the names of a list of contacts, in order
ContactNames(contacts) == [k \in 1..Len(contacts) |-> contacts[k]["name"]]

NoSharedName(contacts) ==
    \A j, k \in 1..Len(contacts) :
        j # k => lower(contacts[j]["name"]) # lower(contacts[k]["name"])

\* C15: add_contact, update_contact and delete_contact keep a contacts file in
\* which no two contacts share a name (compared without case) in that condition;
\* an add of a name the file holds, and an update or a delete of a name the file
\* does not hold, leave the contacts file as it was.
C15_NamesStayUnique ==
    [][\A before \in {load_contacts_from_csv(CSV_FILE)} :
       \A after \in {load_contacts_from_csv(CSV_FILE')} :
        /\ NoSharedName(before) => NoSharedName(after)
        /\ (contact_op'.op = "add" /\ HasName(before, contact_op'.name))
               => CSV_FILE' = CSV_FILE
        /\ (contact_op'.op \in {"update", "delete"} /\ ~HasName(before, contact_op'.name))
               => CSV_FILE' = CSV_FILE]_vars

\* two contacts are stored and an add of the first one's name in another case
\* has just been turned down
C15_Witness ==
    /\ contact_op = [op |-> "add", name |-> "AL", found |-> TRUE]
    /\ ContactNames(load_contacts_from_csv(CSV_FILE)) = <<"al", "bo, jr">>

====
